---- MODULE Spec2Model ----
(***************************************************************************)
(* Two-pointer algorithms of two_pointer.py, each modelled as a state      *)
(* machine: the inputs are drawn in the initial state, a Call action runs  *)
(* the statements before the loop, and every loop iteration is one step.   *)
(* Indices are 0-based as in the source; At(a, k) reads a[k].              *)
(***************************************************************************)
EXTENDS Integers, Sequences, FiniteSets

VARIABLES
    fn,           \* the function being run
    pc,           \* "call" | "loop" | "shrink" | "phase2" | "raised" | "done"
    result,       \* the returned value, once pc = "done"
    arr,          \* two_sum_sorted, remove_duplicates: the list argument
    arr0,         \* remove_duplicates: the list as it was passed (history)
    target,       \* two_sum_sorted
    left, right,  \* two_sum_sorted, max_area, length_of_longest_substring
    write_index,  \* remove_duplicates
    i, j,         \* remove_duplicates (i), merge_sorted_arrays (i, j)
    height,       \* max_area: the list argument
    max_area,     \* max_area: the running maximum
    s,            \* length_of_longest_substring: the string argument
    char_set,     \* length_of_longest_substring
    max_length,   \* length_of_longest_substring
    arr1, arr2,   \* merge_sorted_arrays: the list arguments
    merged,       \* merge_sorted_arrays
    origin,       \* merge_sorted_arrays: where each element of merged came from (history)
    head,         \* linked-list functions: the argument
    next,         \* linked-list functions: the next field of every node
    slow, fast,   \* linked-list functions
    start,        \* detect_cycle_start
    followed,     \* linked-list functions: TRUE once a .next field was read (history)
    ticks,        \* linked-list functions: parity of the loop iterations run (history)
    fault         \* linked-list functions: TRUE once .next was read on None

ctl     == <<fn, pc, result>>
ptrs    == <<left, right>>
arrs    == <<arr, arr0, target, write_index>>
idx     == <<i, j>>
area    == <<height, max_area>>
str     == <<s, char_set, max_length>>
mrg     == <<arr1, arr2, merged, origin>>
lst     == <<head, next, slow, fast, start, followed, ticks, fault>>
vars    == <<ctl, ptrs, arrs, idx, area, str, mrg, lst>>

(* ------------------------------ bounds -------------------------------- *)
MaxLen    == 5    \* longest list passed to two_sum_sorted, remove_duplicates
MaxVal    == 3    \* largest element of those lists
MaxHeights == 5   \* longest list passed to max_area
MaxHeight == 3    \* largest height
MaxStr    == 6    \* longest string passed to length_of_longest_substring
MaxChar   == 3    \* size of the alphabet
MaxMerge  == 3    \* longest list passed to merge_sorted_arrays
MaxMergeVal == 2  \* largest element of those lists
MaxNodes  == 10    \* most nodes of a linked structure

(* ------------------------------ helpers ------------------------------- *)
None == <<>>                          \* Python's None as a returned pair
NoNode == 0                           \* Python's None as a node reference
At(a, k) == a[k + 1]                  \* a[k], 0-based
SeqsUpTo(V, n) == UNION {[1..k -> V] : k \in 0..n}
IsSorted(a) == \A p \in 1..Len(a), q \in 1..Len(a) : p < q => a[p] <= a[q]
SortedSeqs(V, n) == {a \in SeqsUpTo(V, n) : IsSorted(a)}
Min(a, b) == IF a < b THEN a ELSE b   \* Python's min
Max(a, b) == IF a > b THEN a ELSE b   \* Python's max

(* What a function's unused locals hold. *)
IdlePtrs == left = 0 /\ right = 0
IdleArrs == arr = <<>> /\ arr0 = <<>> /\ target = 0 /\ write_index = 0
IdleIdx  == i = 0 /\ j = 0
IdleArea == height = <<>> /\ max_area = 0
IdleStr  == s = <<>> /\ char_set = {} /\ max_length = 0
IdleMrg  == arr1 = <<>> /\ arr2 = <<>> /\ merged = <<>> /\ origin = <<>>
IdleLst  == head = NoNode /\ next = <<>> /\ slow = NoNode /\ fast = NoNode
            /\ start = NoNode /\ followed = FALSE /\ ticks = 0 /\ fault = FALSE

(* --------------------------- two_sum_sorted --------------------------- *)
TwoSumVals == (0 - 1)..MaxVal
TwoSumTargets == (0 - 3)..(2 * MaxVal + 1)

InitTwoSum ==
    /\ fn = "two_sum_sorted" /\ pc = "call" /\ result = None
    /\ arr \in SortedSeqs(TwoSumVals, MaxLen)
    /\ target \in TwoSumTargets
    /\ arr0 = <<>> /\ write_index = 0
    /\ IdlePtrs /\ IdleIdx /\ IdleArea /\ IdleStr /\ IdleMrg /\ IdleLst

\* left, right = 0, len(arr) - 1
TwoSumCall ==
    /\ fn = "two_sum_sorted" /\ pc = "call"
    /\ left' = 0 /\ right' = Len(arr) - 1
    /\ pc' = "loop"
    /\ UNCHANGED <<fn, result, arrs, idx, area, str, mrg, lst>>

current_sum == At(arr, left) + At(arr, right)

\* if current_sum == target: return arr[left], arr[right]
TwoSumFound ==
    /\ fn = "two_sum_sorted" /\ pc = "loop" /\ left < right
    /\ current_sum = target
    /\ result' = <<At(arr, left), At(arr, right)>>
    /\ pc' = "done"
    /\ UNCHANGED <<fn, ptrs, arrs, idx, area, str, mrg, lst>>

TwoSumMoveLeft_Mut ==
    /\ fn = "two_sum_sorted" /\ pc = "loop" /\ left < right
    /\ current_sum < target
    /\ right' = right - 1
    /\ UNCHANGED <<ctl, left, arrs, idx, area, str, mrg, lst>>

\* elif current_sum < target: left += 1
TwoSumMoveLeft ==
    /\ fn = "two_sum_sorted" /\ pc = "loop" /\ left < right
    /\ current_sum < target
    /\ left' = left + 1
    /\ UNCHANGED <<ctl, right, arrs, idx, area, str, mrg, lst>>

\* else: right -= 1
TwoSumMoveRight ==
    /\ fn = "two_sum_sorted" /\ pc = "loop" /\ left < right
    /\ current_sum > target
    /\ right' = right - 1
    /\ UNCHANGED <<ctl, left, arrs, idx, area, str, mrg, lst>>

\* the loop ends: return None
TwoSumNotFound ==
    /\ fn = "two_sum_sorted" /\ pc = "loop" /\ ~(left < right)
    /\ result' = None
    /\ pc' = "done"
    /\ UNCHANGED <<fn, ptrs, arrs, idx, area, str, mrg, lst>>

NextTwoSum ==
    \/ TwoSumCall
    \/ TwoSumFound
    \/ TwoSumMoveLeft
    \/ TwoSumMoveRight
    \/ TwoSumNotFound

SpecTwoSum == InitTwoSum /\ [][NextTwoSum]_vars

PairExists(a, t) ==
    \E p \in 1..Len(a), q \in 1..Len(a) : p < q /\ a[p] + a[q] = t

\* C1: on a list sorted ascending, two_sum_sorted returns a pair of values at
\* two distinct positions that sum to target whenever such positions exist, and
\* None otherwise.
C1_TwoSum ==
    (fn = "two_sum_sorted" /\ pc = "done") =>
        IF PairExists(arr, target)
        THEN /\ result # None
             /\ result[1] + result[2] = target
             /\ \E p \in 1..Len(arr), q \in 1..Len(arr) :
                    p # q /\ arr[p] = result[1] /\ arr[q] = result[2]
        ELSE result = None

\* a pair was found after both pointers had moved
C1_Witness ==
    /\ fn = "two_sum_sorted" /\ pc = "done" /\ result # None
    /\ left > 0 /\ right < Len(arr) - 1
    /\ PairExists(arr, target)

\* no pair exists in a list of at least three elements and None was returned
C1_WitnessNone ==
    /\ fn = "two_sum_sorted" /\ pc = "done" /\ result = None
    /\ Len(arr) >= 3 /\ ~PairExists(arr, target)

(* -------------------------- remove_duplicates ------------------------- *)
DupVals == 0..MaxVal

InitRemDup ==
    /\ fn = "remove_duplicates" /\ pc = "call" /\ result = 0
    /\ arr \in SeqsUpTo(DupVals, MaxLen)
    /\ arr0 = arr /\ target = 0 /\ write_index = 0
    /\ IdlePtrs /\ IdleIdx /\ IdleArea /\ IdleStr /\ IdleMrg /\ IdleLst

\* if not arr: return 0
RemDupEmpty ==
    /\ fn = "remove_duplicates" /\ pc = "call"
    /\ arr = <<>>
    /\ result' = 0
    /\ pc' = "done"
    /\ UNCHANGED <<fn, ptrs, arrs, idx, area, str, mrg, lst>>

\* write_index = 1; for i in range(1, len(arr)):
RemDupCall ==
    /\ fn = "remove_duplicates" /\ pc = "call"
    /\ arr # <<>>
    /\ write_index' = 1
    /\ i' = 1
    /\ pc' = "loop"
    /\ UNCHANGED <<fn, result, ptrs, arr, arr0, target, j, area, str, mrg, lst>>

RemDupCopy_Mut ==
    /\ fn = "remove_duplicates" /\ pc = "loop" /\ i < Len(arr)
    /\ At(arr, i) # At(arr, i - 1)
    /\ arr' = [arr EXCEPT ![write_index + 1] = At(arr, i - 1)]
    /\ write_index' = write_index + 1
    /\ i' = i + 1
    /\ UNCHANGED <<ctl, ptrs, arr0, target, j, area, str, mrg, lst>>

\* if arr[i] != arr[i - 1]: arr[write_index] = arr[i]; write_index += 1
RemDupCopy ==
    /\ fn = "remove_duplicates" /\ pc = "loop" /\ i < Len(arr)
    /\ At(arr, i) # At(arr, i - 1)
    /\ arr' = [arr EXCEPT ![write_index + 1] = At(arr, i)]
    /\ write_index' = write_index + 1
    /\ i' = i + 1
    /\ UNCHANGED <<ctl, ptrs, arr0, target, j, area, str, mrg, lst>>

\* arr[i] == arr[i - 1]: nothing is written
RemDupSkip ==
    /\ fn = "remove_duplicates" /\ pc = "loop" /\ i < Len(arr)
    /\ At(arr, i) = At(arr, i - 1)
    /\ i' = i + 1
    /\ UNCHANGED <<ctl, ptrs, arrs, j, area, str, mrg, lst>>

\* the range is exhausted: return write_index
RemDupReturn ==
    /\ fn = "remove_duplicates" /\ pc = "loop" /\ ~(i < Len(arr))
    /\ result' = write_index
    /\ pc' = "done"
    /\ UNCHANGED <<fn, ptrs, arrs, idx, area, str, mrg, lst>>

NextRemDup ==
    \/ RemDupEmpty
    \/ RemDupCall
    \/ RemDupCopy
    \/ RemDupSkip
    \/ RemDupReturn

SpecRemDup == InitRemDup /\ [][NextRemDup]_vars

\* the positions that start a maximal run of equal consecutive elements
RunStarts(a) == {p \in 1..Len(a) : p = 1 \/ a[p] # a[p - 1]}

RECURSIVE Collapse(_)
\* a with every maximal run of equal consecutive elements reduced to one element
Collapse(a) ==
    IF Len(a) <= 1 THEN a
    ELSE LET n == Len(a)
             r == Collapse(SubSeq(a, 1, n - 1))
         IN  IF a[n] # a[n - 1] THEN Append(r, a[n]) ELSE r

Elems(a) == {a[p] : p \in 1..Len(a)}
StrictlyAscending(a) == \A p \in 1..Len(a), q \in 1..Len(a) : p < q => a[p] < a[q]

\* C2: remove_duplicates returns the number of maximal runs of equal consecutive
\* elements of the list passed (sorted or not), leaves the list with every run
\* collapsed to one element in its first new_length places (for a sorted list:
\* its distinct values, ascending), and does not change the list's length.
C2_RemDup ==
    (fn = "remove_duplicates" /\ pc = "done") =>
        /\ result = Cardinality(RunStarts(arr0))
        /\ SubSeq(arr, 1, result) = Collapse(arr0)
        /\ IsSorted(arr0) =>
              /\ StrictlyAscending(SubSeq(arr, 1, result))
              /\ Elems(SubSeq(arr, 1, result)) = Elems(arr0)
        /\ Len(arr) = Len(arr0)

\* an unsorted list with a repeated run was collapsed and elements were moved
C2_Witness ==
    /\ fn = "remove_duplicates" /\ pc = "done"
    /\ ~IsSorted(arr0) /\ arr # arr0
    /\ result >= 2 /\ result < Len(arr0)

\* a sorted list with duplicates was collapsed
C2_WitnessSorted ==
    /\ fn = "remove_duplicates" /\ pc = "done"
    /\ IsSorted(arr0) /\ arr # arr0 /\ result >= 2

(* ------------------------------ max_area ------------------------------ *)
Heights == 0..MaxHeight

InitMaxArea ==
    /\ fn = "max_area" /\ pc = "call" /\ result = 0
    /\ height \in SeqsUpTo(Heights, MaxHeights)
    /\ max_area = 0
    /\ IdlePtrs /\ IdleArrs /\ IdleIdx /\ IdleStr /\ IdleMrg /\ IdleLst

\* left, right = 0, len(height) - 1; max_area = 0
MaxAreaCall ==
    /\ fn = "max_area" /\ pc = "call"
    /\ left' = 0 /\ right' = Len(height) - 1
    /\ max_area' = 0
    /\ pc' = "loop"
    /\ UNCHANGED <<fn, result, arrs, idx, height, str, mrg, lst>>

width == right - left
current_area == Min(At(height, left), At(height, right)) * width

LeftIsShorter_Mut == At(height, left) > At(height, right)

\* if height[left] < height[right]
LeftIsShorter == At(height, left) < At(height, right)

\* max_area = max(max_area, current_area); left += 1
MaxAreaMoveLeft ==
    /\ fn = "max_area" /\ pc = "loop" /\ left < right
    /\ LeftIsShorter
    /\ max_area' = Max(max_area, current_area)
    /\ left' = left + 1
    /\ UNCHANGED <<ctl, right, arrs, idx, height, str, mrg, lst>>

\* max_area = max(max_area, current_area); else: right -= 1
MaxAreaMoveRight ==
    /\ fn = "max_area" /\ pc = "loop" /\ left < right
    /\ ~LeftIsShorter
    /\ max_area' = Max(max_area, current_area)
    /\ right' = right - 1
    /\ UNCHANGED <<ctl, left, arrs, idx, height, str, mrg, lst>>

\* the loop ends: return max_area
MaxAreaReturn ==
    /\ fn = "max_area" /\ pc = "loop" /\ ~(left < right)
    /\ result' = max_area
    /\ pc' = "done"
    /\ UNCHANGED <<fn, ptrs, arrs, idx, area, str, mrg, lst>>

NextMaxArea ==
    \/ MaxAreaCall
    \/ MaxAreaMoveLeft
    \/ MaxAreaMoveRight
    \/ MaxAreaReturn

SpecMaxArea == InitMaxArea /\ [][NextMaxArea]_vars

MaxOf(S) == CHOOSE x \in S : \A y \in S : y <= x
\* the area of every container two lines of h form
Areas(h) ==
    {Min(h[p], h[q]) * (q - p) : <<p, q>> \in {c \in (1..Len(h)) \X (1..Len(h)) : c[1] < c[2]}}

\* C8: on non-negative heights max_area returns the largest
\* min(height[i], height[j]) * (j - i) over all i < j, 0 when there are fewer
\* than two heights, and never a negative number.
C8_MaxArea ==
    (fn = "max_area" /\ pc = "done") =>
        /\ Len(height) >= 2 => result = MaxOf(Areas(height))
        /\ Len(height) < 2 => result = 0
        /\ result >= 0

\* the best container is neither the first one looked at nor the last
C8_Witness ==
    /\ fn = "max_area" /\ pc = "done"
    /\ Len(height) >= 4
    /\ result > Min(height[1], height[Len(height)]) * (Len(height) - 1)
    /\ result = MaxOf(Areas(height))
    /\ \E p \in 2..(Len(height) - 1) : height[p] > height[1] /\ height[p] > height[Len(height)]

(* -------------------- length_of_longest_substring --------------------- *)
Chars == 1..MaxChar

InitLongest ==
    /\ fn = "length_of_longest_substring" /\ pc = "call" /\ result = 0
    /\ s \in SeqsUpTo(Chars, MaxStr)
    /\ char_set = {} /\ max_length = 0
    /\ IdlePtrs /\ IdleArrs /\ IdleIdx /\ IdleArea /\ IdleMrg /\ IdleLst

\* char_set = set(); left = 0; max_length = 0   (right is not bound yet: the
\* window is empty, written right = left - 1)
LongestCall ==
    /\ fn = "length_of_longest_substring" /\ pc = "call"
    /\ char_set' = {} /\ left' = 0 /\ max_length' = 0
    /\ right' = 0 - 1
    /\ pc' = "loop"
    /\ UNCHANGED <<fn, result, arrs, idx, area, s, mrg, lst>>

\* for right in range(len(s)): the next index is taken
LongestAdvance ==
    /\ fn = "length_of_longest_substring" /\ pc = "loop"
    /\ right + 1 < Len(s)
    /\ right' = right + 1
    /\ pc' = "shrink"
    /\ UNCHANGED <<fn, result, left, arrs, idx, area, str, mrg, lst>>

LongestShrink_Mut ==
    /\ fn = "length_of_longest_substring" /\ pc = "shrink"
    /\ At(s, right) \in char_set
    /\ char_set' = char_set \ {At(s, right)}
    /\ left' = left + 1
    /\ UNCHANGED <<ctl, right, arrs, idx, area, s, max_length, mrg, lst>>

\* while s[right] in char_set: char_set.remove(s[left]); left += 1
LongestShrink ==
    /\ fn = "length_of_longest_substring" /\ pc = "shrink"
    /\ At(s, right) \in char_set
    /\ char_set' = char_set \ {At(s, left)}
    /\ left' = left + 1
    /\ UNCHANGED <<ctl, right, arrs, idx, area, s, max_length, mrg, lst>>

\* char_set.add(s[right]); max_length = max(max_length, right - left + 1)
LongestInsert ==
    /\ fn = "length_of_longest_substring" /\ pc = "shrink"
    /\ At(s, right) \notin char_set
    /\ char_set' = char_set \cup {At(s, right)}
    /\ max_length' = Max(max_length, right - left + 1)
    /\ pc' = "loop"
    /\ UNCHANGED <<fn, result, ptrs, arrs, idx, area, s, mrg, lst>>

\* the range is exhausted: return max_length
LongestReturn ==
    /\ fn = "length_of_longest_substring" /\ pc = "loop"
    /\ ~(right + 1 < Len(s))
    /\ result' = max_length
    /\ pc' = "done"
    /\ UNCHANGED <<fn, ptrs, arrs, idx, area, str, mrg, lst>>

NextLongest ==
    \/ LongestCall
    \/ LongestAdvance
    \/ LongestShrink
    \/ LongestInsert
    \/ LongestReturn

SpecLongest == InitLongest /\ [][NextLongest]_vars

\* s[a..b], 0-based and inclusive, has no character twice
NoRepeat(t, a, b) == \A p \in a..b, q \in a..b : p # q => At(t, p) # At(t, q)
WindowChars(t, a, b) == {At(t, p) : p \in a..b}
\* the lengths of the substrings of t without a repeated character
UniqueLengths(t) ==
    {0} \cup {b - a + 1 : <<a, b>> \in
                {c \in (0..(Len(t) - 1)) \X (0..(Len(t) - 1)) :
                    c[1] <= c[2] /\ NoRepeat(t, c[1], c[2])}}

\* C7: length_of_longest_substring returns the length of the longest substring
\* without a repeated character (0 for the empty string); whenever an iteration
\* of the for loop is complete (and before the first), char_set is exactly the
\* set of characters of the window s[left..right], which has no character
\* twice; while the window is being shrunk for the next character s[right],
\* char_set is the set of characters of s[left..right-1], and the character
\* removed, s[left], is in it.
C7_Longest ==
    fn = "length_of_longest_substring" =>
        /\ pc = "done" => result = MaxOf(UniqueLengths(s))
        /\ pc \in {"loop", "done"} =>
              /\ char_set = WindowChars(s, left, right)
              /\ NoRepeat(s, left, right)
        /\ pc = "shrink" =>
              /\ left <= right
              /\ char_set = WindowChars(s, left, right - 1)
              /\ NoRepeat(s, left, right - 1)
              /\ At(s, right) \in char_set => At(s, left) \in char_set

\* the window was shrunk by more than one character and the longest substring
\* is not a prefix of the string
C7_Witness ==
    /\ fn = "length_of_longest_substring" /\ pc = "done"
    /\ left >= 2 /\ result >= 2
    /\ ~NoRepeat(s, 0, result - 1)
    /\ result < Len(s)

(* ------------------------- merge_sorted_arrays ------------------------ *)
MergeVals == 0..MaxMergeVal

InitMerge ==
    /\ fn = "merge_sorted_arrays" /\ pc = "call" /\ result = <<>>
    /\ arr1 \in SeqsUpTo(MergeVals, MaxMerge)
    /\ arr2 \in SeqsUpTo(MergeVals, MaxMerge)
    /\ merged = <<>> /\ origin = <<>>
    /\ IdlePtrs /\ IdleArrs /\ IdleIdx /\ IdleArea /\ IdleStr /\ IdleLst

\* merged = []; i, j = 0, 0
MergeCall ==
    /\ fn = "merge_sorted_arrays" /\ pc = "call"
    /\ merged' = <<>> /\ origin' = <<>>
    /\ i' = 0 /\ j' = 0
    /\ pc' = "loop"
    /\ UNCHANGED <<fn, result, ptrs, arrs, area, str, arr1, arr2, lst>>

\* while i < len(arr1) and j < len(arr2)
BothInRange == i < Len(arr1) /\ j < Len(arr2)

FirstIsLess_Mut == At(arr1, i) <= At(arr2, j)

\* if arr1[i] < arr2[j]
FirstIsLess == At(arr1, i) < At(arr2, j)

\* merged.append(arr1[i]); i += 1
MergeTakeFirst ==
    /\ fn = "merge_sorted_arrays" /\ pc = "loop" /\ BothInRange
    /\ FirstIsLess
    /\ merged' = Append(merged, At(arr1, i))
    /\ origin' = Append(origin, <<1, i>>)
    /\ i' = i + 1
    /\ UNCHANGED <<ctl, ptrs, arrs, j, area, str, arr1, arr2, lst>>

\* else: merged.append(arr2[j]); j += 1
MergeTakeSecond ==
    /\ fn = "merge_sorted_arrays" /\ pc = "loop" /\ BothInRange
    /\ ~FirstIsLess
    /\ merged' = Append(merged, At(arr2, j))
    /\ origin' = Append(origin, <<2, j>>)
    /\ j' = j + 1
    /\ UNCHANGED <<ctl, ptrs, arrs, i, area, str, arr1, arr2, lst>>

\* a[k:], 0-based
Rest(a, k) == SubSeq(a, k + 1, Len(a))
\* the origins of a[k:], taken from list number n
RestOrigin(n, a, k) == [p \in 1..(Len(a) - k) |-> <<n, k + p - 1>>]

MergeExtend_Mut ==
    /\ fn = "merge_sorted_arrays" /\ pc = "loop" /\ ~BothInRange
    /\ merged' = merged \o Rest(arr1, i)
    /\ origin' = origin \o RestOrigin(1, arr1, i)
    /\ result' = merged'
    /\ pc' = "done"
    /\ UNCHANGED <<fn, ptrs, arrs, idx, area, str, arr1, arr2, lst>>

\* merged.extend(arr1[i:]); merged.extend(arr2[j:]); return merged
MergeExtend ==
    /\ fn = "merge_sorted_arrays" /\ pc = "loop" /\ ~BothInRange
    /\ merged' = merged \o Rest(arr1, i) \o Rest(arr2, j)
    /\ origin' = origin \o RestOrigin(1, arr1, i) \o RestOrigin(2, arr2, j)
    /\ result' = merged'
    /\ pc' = "done"
    /\ UNCHANGED <<fn, ptrs, arrs, idx, area, str, arr1, arr2, lst>>

NextMerge ==
    \/ MergeCall
    \/ MergeTakeFirst
    \/ MergeTakeSecond
    \/ MergeExtend

SpecMerge == InitMerge /\ [][NextMerge]_vars

\* how many times v occurs in a
Count(a, v) == Cardinality({p \in 1..Len(a) : a[p] = v})

C3_Result ==
    (fn = "merge_sorted_arrays" /\ pc = "done") =>
        /\ Len(result) = Len(arr1) + Len(arr2)
        /\ \A v \in Elems(arr1) \cup Elems(arr2) \cup Elems(result) :
              Count(result, v) = Count(arr1, v) + Count(arr2, v)
        /\ (IsSorted(arr1) /\ IsSorted(arr2)) => IsSorted(result)

\* C3: merge_sorted_arrays returns a list of len(arr1) + len(arr2) elements
\* holding exactly the elements of arr1 and arr2 with their multiplicities,
\* sorted ascending whenever arr1 and arr2 both are; no step changes arr1 or
\* arr2.
C3_Merge ==
    /\ []C3_Result
    /\ [][arr1' = arr1 /\ arr2' = arr2]_vars

\* two sorted lists that interleave were merged, both loop branches taken
C3_Witness ==
    /\ fn = "merge_sorted_arrays" /\ pc = "done"
    /\ IsSorted(arr1) /\ IsSorted(arr2)
    /\ Len(arr1) >= 2 /\ Len(arr2) >= 2
    /\ \E p \in 1..Len(origin), q \in 1..Len(origin) :
          p < q /\ q < i + j /\ origin[p][1] = 2 /\ origin[q][1] = 1

\* the loop is at a tie: both cursors in range and arr1[i] == arr2[j]
AtTie ==
    /\ fn = "merge_sorted_arrays" /\ pc = "loop" /\ BothInRange
    /\ At(arr1, i) = At(arr2, j)

\* in the output, every element taken from list number a stands before every
\* equal element taken from list number b
EqualsPrecede(a, b) ==
    \A p \in 1..Len(merged), q \in 1..Len(merged) :
        (origin[p][1] = a /\ origin[q][1] = b /\ merged[p] = merged[q]) => p < q

\* C10 as claimed: at a tie the element appended is arr1[i] and i is the cursor
\* advanced, so in the output equal elements of arr1 precede those of arr2.
C10_TiesFavorFirst ==
    /\ [][AtTie => /\ merged' = Append(merged, At(arr1, i))
                   /\ origin' = Append(origin, <<1, i>>)
                   /\ i' = i + 1 /\ j' = j]_vars
    /\ []((fn = "merge_sorted_arrays" /\ pc = "done") => EqualsPrecede(1, 2))

\* C10 (amended): at a tie the element appended is arr2[j] and j is the cursor
\* advanced (ties favor the second operand), so when both lists are sorted
\* equal elements of arr2 precede those of arr1 in the output.
C10_TiesFavorSecond ==
    /\ [][AtTie => /\ merged' = Append(merged, At(arr2, j))
                   /\ origin' = Append(origin, <<2, j>>)
                   /\ j' = j + 1 /\ i' = i]_vars
    /\ []((fn = "merge_sorted_arrays" /\ pc = "done"
            /\ IsSorted(arr1) /\ IsSorted(arr2)) => EqualsPrecede(2, 1))

\* a tie has just been resolved: the last element appended is arr2[j-1], and
\* arr1[i], still to be taken, equals it
C10_Witness ==
    /\ fn = "merge_sorted_arrays" /\ pc = "loop"
    /\ j >= 1 /\ i < Len(arr1) /\ i >= 1
    /\ origin # <<>> /\ origin[Len(origin)] = <<2, j - 1>>
    /\ At(arr1, i) = At(arr2, j - 1)

(* ------------------------- linked structures -------------------------- *)
(* A node is a number 1..Len(next) and next[k] is node k's next field.     *)
(* The functions only read next, starting from head, and compare nodes by  *)
(* identity (ListNode defines no __eq__), so a structure is determined up  *)
(* to renaming by its chain of nodes and by where the last node's next     *)
(* points: to None, or back to any node of the chain (itself included).    *)
Chains ==
    UNION {{[k \in 1..n |-> IF k < n THEN k + 1 ELSE back] : back \in 0..n} : n \in 1..MaxNodes}
        \cup {<<>>}

\* x.next; reading it on None raises AttributeError (see Raises)
Follows(x) == IF x = NoNode THEN NoNode ELSE next[x]

InitListFor(f, r) ==
    /\ fn = f /\ pc = "call" /\ result = r
    /\ next \in Chains
    /\ head \in 0..Len(next)
    /\ slow = NoNode /\ fast = NoNode /\ start = NoNode
    /\ followed = FALSE /\ ticks = 0 /\ fault = FALSE
    /\ IdlePtrs /\ IdleArrs /\ IdleIdx /\ IdleArea /\ IdleStr /\ IdleMrg

\* slow, fast = head, head
ListCall(f) ==
    /\ fn = f /\ pc = "call"
    /\ slow' = head /\ fast' = head
    /\ pc' = "loop"
    /\ UNCHANGED <<fn, result, ptrs, arrs, idx, area, str, mrg, head, next, start, followed, ticks, fault>>

\* slow = slow.next; fast = fast.next.next raises when .next is read on None
Raises == slow = NoNode \/ fast = NoNode \/ Follows(fast) = NoNode

\* the test of the while loop reads fast.next unless fast is None
TestReads == fast # NoNode

(* ------------------------------ has_cycle ----------------------------- *)
HasCycleCond_Mut == fast # NoNode

\* while fast and fast.next
HasCycleCond == fast # NoNode /\ Follows(fast) # NoNode

\* slow = slow.next; fast = fast.next.next; slow != fast
HasCycleAdvance ==
    /\ fn = "has_cycle" /\ pc = "loop" /\ HasCycleCond
    /\ followed' = TRUE /\ ticks' = 1 - ticks
    /\ IF Raises
       THEN fault' = TRUE /\ pc' = "raised" /\ UNCHANGED <<result, slow, fast>>
       ELSE /\ Follows(slow) # Follows(Follows(fast))
            /\ slow' = Follows(slow)
            /\ fast' = Follows(Follows(fast))
            /\ UNCHANGED <<pc, result, fault>>
    /\ UNCHANGED <<fn, ptrs, arrs, idx, area, str, mrg, head, next, start>>

\* slow = slow.next; fast = fast.next.next; if slow == fast: return True
HasCycleMeet ==
    /\ fn = "has_cycle" /\ pc = "loop" /\ HasCycleCond
    /\ ~Raises
    /\ Follows(slow) = Follows(Follows(fast))
    /\ slow' = Follows(slow)
    /\ fast' = Follows(Follows(fast))
    /\ followed' = TRUE /\ ticks' = 1 - ticks
    /\ result' = TRUE
    /\ pc' = "done"
    /\ UNCHANGED <<fn, ptrs, arrs, idx, area, str, mrg, head, next, start, fault>>

\* the loop ends: return False
HasCycleEnd ==
    /\ fn = "has_cycle" /\ pc = "loop" /\ ~HasCycleCond
    /\ followed' = (followed \/ TestReads)
    /\ result' = FALSE
    /\ pc' = "done"
    /\ UNCHANGED <<fn, ptrs, arrs, idx, area, str, mrg, head, next, slow, fast, start, ticks, fault>>

(* ----------------------------- find_middle ---------------------------- *)
MiddleCond_Mut == Follows(fast) # NoNode /\ Follows(Follows(fast)) # NoNode

\* while fast and fast.next
MiddleCond == fast # NoNode /\ Follows(fast) # NoNode

\* slow = slow.next; fast = fast.next.next
MiddleStep ==
    /\ fn = "find_middle" /\ pc = "loop" /\ MiddleCond
    /\ followed' = TRUE /\ ticks' = 1 - ticks
    /\ IF Raises
       THEN fault' = TRUE /\ pc' = "raised" /\ UNCHANGED <<slow, fast>>
       ELSE /\ slow' = Follows(slow)
            /\ fast' = Follows(Follows(fast))
            /\ UNCHANGED <<pc, fault>>
    /\ UNCHANGED <<fn, result, ptrs, arrs, idx, area, str, mrg, head, next, start>>

\* the loop ends: return slow
MiddleReturn ==
    /\ fn = "find_middle" /\ pc = "loop" /\ ~MiddleCond
    /\ followed' = (followed \/ TestReads)
    /\ result' = slow
    /\ pc' = "done"
    /\ UNCHANGED <<fn, ptrs, arrs, idx, area, str, mrg, head, next, slow, fast, start, ticks, fault>>

(* -------------------------- detect_cycle_start ------------------------ *)
\* while fast and fast.next
DetectCond == fast # NoNode /\ Follows(fast) # NoNode

\* slow = slow.next; fast = fast.next.next; slow != fast
DetectAdvance ==
    /\ fn = "detect_cycle_start" /\ pc = "loop" /\ DetectCond
    /\ followed' = TRUE /\ ticks' = 1 - ticks
    /\ IF Raises
       THEN fault' = TRUE /\ pc' = "raised" /\ UNCHANGED <<slow, fast>>
       ELSE /\ Follows(slow) # Follows(Follows(fast))
            /\ slow' = Follows(slow)
            /\ fast' = Follows(Follows(fast))
            /\ UNCHANGED <<pc, fault>>
    /\ UNCHANGED <<fn, result, ptrs, arrs, idx, area, str, mrg, head, next, start>>

\* slow = slow.next; fast = fast.next.next; if slow == fast: break; start = head
DetectMeet ==
    /\ fn = "detect_cycle_start" /\ pc = "loop" /\ DetectCond
    /\ ~Raises
    /\ Follows(slow) = Follows(Follows(fast))
    /\ slow' = Follows(slow)
    /\ fast' = Follows(Follows(fast))
    /\ followed' = TRUE /\ ticks' = 1 - ticks
    /\ start' = head
    /\ pc' = "phase2"
    /\ UNCHANGED <<fn, result, ptrs, arrs, idx, area, str, mrg, head, next, fault>>

\* the loop ends without break: else: return None
DetectNoCycle ==
    /\ fn = "detect_cycle_start" /\ pc = "loop" /\ ~DetectCond
    /\ followed' = (followed \/ TestReads)
    /\ result' = NoNode
    /\ pc' = "done"
    /\ UNCHANGED <<fn, ptrs, arrs, idx, area, str, mrg, head, next, slow, fast, start, ticks, fault>>

Phase2Step_Mut ==
    /\ fn = "detect_cycle_start" /\ pc = "phase2" /\ start # slow
    /\ followed' = TRUE /\ ticks' = 1 - ticks
    /\ IF slow = NoNode
       THEN fault' = TRUE /\ pc' = "raised" /\ UNCHANGED <<start, slow>>
       ELSE /\ start' = start
            /\ slow' = Follows(slow)
            /\ UNCHANGED <<pc, fault>>
    /\ UNCHANGED <<fn, result, ptrs, arrs, idx, area, str, mrg, head, next, fast>>

\* while start != slow: start = start.next; slow = slow.next
Phase2Step ==
    /\ fn = "detect_cycle_start" /\ pc = "phase2" /\ start # slow
    /\ followed' = TRUE /\ ticks' = 1 - ticks
    /\ IF start = NoNode \/ slow = NoNode
       THEN fault' = TRUE /\ pc' = "raised" /\ UNCHANGED <<start, slow>>
       ELSE /\ start' = Follows(start)
            /\ slow' = Follows(slow)
            /\ UNCHANGED <<pc, fault>>
    /\ UNCHANGED <<fn, result, ptrs, arrs, idx, area, str, mrg, head, next, fast>>

Phase2Return_Mut ==
    /\ fn = "detect_cycle_start" /\ pc = "phase2" /\ start = slow
    /\ result' = fast
    /\ pc' = "done"
    /\ UNCHANGED <<fn, ptrs, arrs, idx, area, str, mrg, lst>>

\* start == slow: return start
Phase2Return ==
    /\ fn = "detect_cycle_start" /\ pc = "phase2" /\ start = slow
    /\ result' = start
    /\ pc' = "done"
    /\ UNCHANGED <<fn, ptrs, arrs, idx, area, str, mrg, lst>>

InitList ==
    \/ InitListFor("has_cycle", FALSE)
    \/ InitListFor("find_middle", NoNode)
    \/ InitListFor("detect_cycle_start", NoNode)

NextList ==
    \/ ListCall("has_cycle")
    \/ HasCycleAdvance
    \/ HasCycleMeet
    \/ HasCycleEnd
    \/ ListCall("find_middle")
    \/ MiddleStep
    \/ MiddleReturn
    \/ ListCall("detect_cycle_start")
    \/ DetectAdvance
    \/ DetectMeet
    \/ DetectNoCycle
    \/ Phase2Step
    \/ Phase2Return

SpecList == InitList /\ [][NextList]_vars

\* A call runs on: the interpreter takes the next step whenever there is one.
SpecListFair == SpecList /\ WF_vars(NextList)

RECURSIVE WalkFrom(_, _)
\* the reference reached from x by following next k times (None stays None)
WalkFrom(x, k) == IF k = 0 THEN x ELSE WalkFrom(Follows(x), k - 1)
Walk(k) == WalkFrom(head, k)
NumNodes == Len(next)
\* following next from head never reaches None
Cyclic == Walk(NumNodes) # NoNode
\* the nodes reachable from head
Reach == {Walk(k) : k \in 0..NumNodes} \ {NoNode}
\* the walk from head is at a node again after k steps
Revisited(k) == \E m \in (k + 1)..(2 * NumNodes) : Walk(m) = Walk(k)
\* the steps from head to the first node the walk visits twice
TailLen == CHOOSE k \in 0..NumNodes : Revisited(k) /\ \A k2 \in 0..(k - 1) : ~Revisited(k2)
Entry == Walk(TailLen)
CycleLen == Cardinality(Reach) - TailLen

\* C4: has_cycle returns True exactly when following next from head never
\* reaches None (a self-loop at head included), False for head None and for a
\* single node whose next is None, and never reads .next on None.
C4_HasCycle ==
    fn = "has_cycle" =>
        /\ fault = FALSE /\ pc # "raised"
        /\ pc = "done" =>
              /\ result = Cyclic
              /\ head = NoNode => result = FALSE
              /\ (head # NoNode /\ next[head] = NoNode) => result = FALSE
              /\ (head # NoNode /\ next[head] = head) => result = TRUE

\* a cycle of at least two nodes behind a tail of at least two was reported
C4_Witness ==
    /\ fn = "has_cycle" /\ pc = "done" /\ result = TRUE
    /\ Cyclic /\ TailLen >= 2 /\ CycleLen >= 2

\* C5: detect_cycle_start returns the first node the walk from head visits
\* twice when a cycle is reachable from head (any tail, any cycle length), and
\* None when there is none, head None included.
C5_DetectCycleStart ==
    (fn = "detect_cycle_start" /\ pc = "done") =>
        /\ Cyclic => result = Entry
        /\ ~Cyclic => result = NoNode
        /\ head = NoNode => result = NoNode

\* the entry of a cycle was returned after the second loop had walked a tail
\* longer than the cycle
C5_Witness ==
    /\ fn = "detect_cycle_start" /\ pc = "done"
    /\ Cyclic /\ result = Entry /\ result # head
    /\ TailLen > CycleLen /\ CycleLen >= 2

\* C6: on a list of n >= 1 nodes without a cycle find_middle returns the node
\* at 0-based index n div 2; for head None it returns None and reads no next
\* field.
C6_FindMiddle ==
    (fn = "find_middle" /\ pc = "done") =>
        /\ (head # NoNode /\ ~Cyclic) => result = Walk(Cardinality(Reach) \div 2)
        /\ head = NoNode => (result = NoNode /\ followed = FALSE)

\* the second of the two middle nodes of a list of four or six nodes was returned
C6_Witness ==
    /\ fn = "find_middle" /\ pc = "done"
    /\ ~Cyclic /\ Cardinality(Reach) \in {4, 6}
    /\ result = Walk(Cardinality(Reach) \div 2)

Returned == pc = "done"

\* C9 as claimed: every call of has_cycle, find_middle and detect_cycle_start
\* returns, whether or not a cycle is reachable from head.
C9_AllReturn == <>Returned

\* C9 (amended): has_cycle and detect_cycle_start return on every structure;
\* find_middle returns when no cycle is reachable from head, and never returns
\* when one is.
C9_ReturnUnlessMiddleOfCycle ==
    /\ (fn # "find_middle" \/ ~Cyclic) ~> Returned
    /\ []((fn = "find_middle" /\ Cyclic) => ~Returned)

\* detect_cycle_start returned on a structure whose cycle is longer than its tail
C9_Witness ==
    /\ fn = "detect_cycle_start" /\ Returned
    /\ Cyclic /\ TailLen >= 1 /\ CycleLen > TailLen

(* --------------------------- the whole module -------------------------- *)
Init ==
    \/ InitTwoSum
    \/ InitRemDup
    \/ InitMaxArea
    \/ InitLongest
    \/ InitMerge
    \/ InitList

Next ==
    \/ NextTwoSum
    \/ NextRemDup
    \/ NextMaxArea
    \/ NextLongest
    \/ NextMerge
    \/ NextList

Spec == Init /\ [][Next]_vars

====
